---- MODULE Spec2Model ----
(***************************************************************************)
(* A model of CGRtools' attributed-graph containers (containers.py) and of *)
(* the merge engine (core.py): MoleculeContainer / CGRContainer over a     *)
(* networkx Graph, fix_data, reset_query_marks, pickle / unpickle,         *)
(* get_environment, get_center_atoms, union and compose.                   *)
(*                                                                         *)
(* Attribute mappings (Python dicts) live in three stores keyed by         *)
(* references; a container holds references, so two containers can share a *)
(* mapping and an in-place update is then seen through both.               *)
(***************************************************************************)
EXTENDS Integers, Sequences, FiniteSets, TLC

VARIABLES
    ent,        \* slot -> container object (references into the stores) or NoEnt
    nodeAttr,   \* node-attribute dicts: reference <<oid, atom>> -> dict
    edgeAttr,   \* edge-attribute dicts: reference <<oid, {a1, a2}>> -> dict
    metaAttr,   \* meta dicts: reference oid -> dict
    nextOid,    \* the next unused object identity
    last,       \* the last call: its name, arguments, outcome and returned value
    pre,        \* the contents of every slot before the last call
    nops,       \* the number of calls made so far that were not add_atom / add_bond
    hashOrder   \* the interpreter's iteration order of a set: "asc" or "desc"

vars == <<ent, nodeAttr, edgeAttr, metaAttr, nextOid, last, pre, nops, hashOrder>>

(***************************************************************************)
(* Python values.  Every value is tagged with its type, so that values of  *)
(* different types compare unequal (as in Python) instead of being         *)
(* incomparable.                                                           *)
(***************************************************************************)
NoneV == [t |-> "none"]

I(n) == [t |-> "int", v |-> n]

S(s) == [t |-> "str", v |-> s]

L(q) == [t |-> "list", v |-> q]

T(a, b) == [t |-> "tuple", v |-> <<a, b>>]

isList(x) == x.t = "list"

\* Python truth value of x ("if bond:", "if not mark:")
Truthy(x) ==
    CASE x.t = "none" -> FALSE
      [] x.t = "int" -> x.v # 0
      [] x.t = "str" -> x.v # ""
      [] x.t = "list" -> Len(x.v) > 0
      [] OTHER -> TRUE

(***************************************************************************)
(* Python dicts as functions from keys (strings) to values.                *)
(***************************************************************************)
EmptyDict == [k \in {} |-> NoneV]

\* attr.get(k): the stored value, None when the key is absent
get(attr, k) == IF k \in DOMAIN attr THEN attr[k] ELSE NoneV

\* a.update(b)
update(a, b) == [k \in DOMAIN a \cup DOMAIN b |-> IF k \in DOMAIN b THEN b[k] ELSE a[k]]

\* {k: v for k, v in a.items() if k in K}
restrict(a, K) == [k \in DOMAIN a \cap K |-> a[k]]

Range(q) == {q[i] : i \in DOMAIN q}

Min(a, b) == IF a < b THEN a ELSE b

(***************************************************************************)
(* Iteration order of a Python set.  The language leaves it unspecified;   *)
(* it is fixed for one interpreter run (hashOrder).                        *)
(***************************************************************************)
Rank(x) == CASE x.t = "none" -> 0 [] x.t = "int" -> x.v + 1 [] OTHER -> 0

ValueLess(a, b) ==
    IF a.t = "tuple" /\ b.t = "tuple"
    THEN \/ Rank(a.v[1]) < Rank(b.v[1])
         \/ Rank(a.v[1]) = Rank(b.v[1]) /\ Rank(a.v[2]) < Rank(b.v[2])
    ELSE Rank(a) < Rank(b)

RECURSIVE SeqOfSet(_)
SeqOfSet(X) == IF X = {} THEN <<>> ELSE LET x == CHOOSE y \in X : TRUE IN <<x>> \o SeqOfSet(X \ {x})

\* list(set(...)) over values
ListOfSet(X) ==
    SortSeq(SeqOfSet(X), LAMBDA a, b : IF hashOrder = "asc" THEN ValueLess(a, b) ELSE ValueLess(b, a))

\* the atom ids of X in ascending order
IterAsc(X) == SortSeq(SeqOfSet(X), LAMBDA a, b : a < b)

\* "for n in <set of atom ids>"
IterIds(X) ==
    SortSeq(SeqOfSet(X), LAMBDA a, b : IF hashOrder = "asc" THEN a < b ELSE b < a)

(***************************************************************************)
(* The attribute schema (containers.py:243-248 and 373-378).               *)
(***************************************************************************)
Molecule_node_base == <<"element", "isotope", "mark", "s_x", "s_y", "s_z">>

Molecule_node_marks == <<"s_neighbors", "s_hyb", "s_charge", "s_stereo">>

Molecule_node_s == Molecule_node_marks \o Molecule_node_base

Molecule_edge_marks == <<"s_bond", "s_stereo">>

Molecule_edge_s == Molecule_edge_marks

CGR_node_base == <<"element", "isotope", "mark", "s_x", "s_y", "s_z">>

CGR_node_marks ==
    << <<"s_neighbors", "p_neighbors", "sp_neighbors">>, <<"s_hyb", "p_hyb", "sp_hyb">>,
       <<"s_charge", "p_charge", "sp_charge">>, <<"s_stereo", "p_stereo", "sp_stereo">> >>

CGR_edge_marks == << <<"s_bond", "p_bond", "sp_bond">>, <<"s_stereo", "p_stereo", "sp_stereo">> >>

CGR_node_sp ==
    <<"s_neighbors", "p_neighbors", "s_hyb", "p_hyb", "s_charge", "p_charge", "s_stereo", "p_stereo">>
        \o CGR_node_base \o <<"p_x", "p_y", "p_z">>

CGR_edge_sp == <<"s_bond", "p_bond", "s_stereo", "p_stereo">>

(***************************************************************************)
(* _attr_renew                                                             *)
(***************************************************************************)
\* MoleculeContainer._attr_renew: the marks whose stored value is not None
Molecule_attr_renew(attr, marks) ==
    [s \in {k \in Range(marks) : get(attr, k) # NoneV} |-> attr[s]]

\* new_attr[sp] = pairs; new_attr[s] = [x for x, _ in pairs]; new_attr[p] = [x for _, x in pairs]
renewPairs(m, pairs) ==
    (m[3] :> L(pairs))
        @@ (m[1] :> L([i \in 1..Len(pairs) |-> pairs[i].v[1]]))
        @@ (m[2] :> L([i \in 1..Len(pairs) |-> pairs[i].v[2]]))

\* one turn of CGRContainer._attr_renew's loop: what the triple m = (s, p, sp) adds to new_attr
renewTriple(attr, m) ==
    LET ls == get(attr, m[1])
        lp == get(attr, m[2])
    IN  IF isList(ls)
        THEN IF isList(lp)
             THEN IF ls = lp
                  THEN LET d == L(ListOfSet(Range(ls.v)))
                       IN  (m[3] :> d) @@ (m[1] :> d) @@ (m[2] :> d)
                  ELSE renewPairs(m, ListOfSet({T(ls.v[i], lp.v[i]) :
                           i \in {j \in 1..Min(Len(ls.v), Len(lp.v)) : ls.v[j] # lp.v[j]}}))
             ELSE renewPairs(m, ListOfSet({T(x, lp) : x \in {y \in Range(ls.v) : y # lp}}))
        ELSE IF isList(lp)
             THEN renewPairs(m, ListOfSet({T(ls, x) : x \in {y \in Range(lp.v) : y # ls}}))
             ELSE IF ls # lp
                  THEN m[3] :> T(ls, lp)
                  ELSE IF ls # NoneV THEN m[3] :> ls ELSE EmptyDict

RECURSIVE renewFrom(_, _, _)
renewFrom(attr, marks, i) ==
    IF i > Len(marks) THEN EmptyDict ELSE update(renewTriple(attr, marks[i]), renewFrom(attr, marks, i + 1))

\* CGRContainer._attr_renew
CGR_attr_renew(attr, marks) == renewFrom(attr, marks, 1)

\* self._attr_renew / self._node_marks / self._edge_marks of a container of this kind
attr_renew(kind, attr, marks) ==
    IF kind = "CGR" THEN CGR_attr_renew(attr, marks) ELSE Molecule_attr_renew(attr, marks)

node_marks(kind) == IF kind = "CGR" THEN CGR_node_marks ELSE Molecule_node_marks

edge_marks(kind) == IF kind = "CGR" THEN CGR_edge_marks ELSE Molecule_edge_marks

(***************************************************************************)
(* The graph engine (networkx.Graph) on container contents.  A content is  *)
(* a record:                                                               *)
(*   kind    "Molecule" / "CGR" (the object's class)                       *)
(*   oid     the identity of the container object                          *)
(*   order   the atoms in insertion order                                  *)
(*   node    atom -> attribute dict;  nref  atom -> the dict's reference   *)
(*   adj     atom -> its neighbours in insertion order                     *)
(*   edge    {a1, a2} -> attribute dict;  eref  {a1, a2} -> its reference  *)
(*   meta    the meta dict;  mref  its reference                           *)
(*   stereo  "noattr": the object has no attribute stereo (no code of the  *)
(*           containers sets one); "empty": the caller has set an empty    *)
(*           stereo table on the object                                    *)
(* A dict created for a graph object gets a reference of that object; a    *)
(* dict updated in place keeps its reference.                              *)
(***************************************************************************)
\* Graph() followed by __class__ = kind: a new, empty object
EmptyGraph(kind, oid) ==
    [kind |-> kind, oid |-> oid, order |-> <<>>, node |-> <<>>, nref |-> <<>>, adj |-> <<>>,
     edge |-> <<>>, eref |-> <<>>, meta |-> EmptyDict, mref |-> oid, stereo |-> "noattr"]

Atoms(g) == DOMAIN g.node

Bonds(g) == DOMAIN g.edge

\* Graph.add_node(n, **attrs): a new dict for a new atom, dict.update for an atom already there
add_node(g, n, attrs) ==
    IF n \in Atoms(g)
    THEN [g EXCEPT !.node[n] = update(@, attrs)]
    ELSE [g EXCEPT !.order = Append(@, n), !.node = @ @@ (n :> attrs),
                   !.nref = @ @@ (n :> <<g.oid, n>>), !.adj = @ @@ (n :> <<>>)]

\* Graph.add_edge(u, v, **attrs)
add_edge(g, u, v, attrs) ==
    LET g1 == IF u \in Atoms(g) THEN g ELSE add_node(g, u, EmptyDict)
        g2 == IF v \in Atoms(g1) THEN g1 ELSE add_node(g1, v, EmptyDict)
    IN  IF {u, v} \in Bonds(g2)
        THEN [g2 EXCEPT !.edge[{u, v}] = update(@, attrs)]
        ELSE [g2 EXCEPT !.edge = @ @@ ({u, v} :> attrs),
                        !.eref = @ @@ ({u, v} :> <<g.oid, {u, v}>>),
                        !.adj = [x \in DOMAIN g2.adj |->
                                    IF x = u THEN Append(g2.adj[x], v)
                                    ELSE IF x = v THEN Append(g2.adj[x], u) ELSE g2.adj[x]]]

\* Graph.nbunch_iter(nbunch): the atoms of the sequence nb that are in the graph
nbunch_iter(g, nb) == SelectSeq(nb, LAMBDA n : n \in Atoms(g))

\* Graph.edges(nbunch): every edge with an end in nb, once, as <<n, neighbour>>
RECURSIVE edgesFrom(_, _, _, _)
edgesFrom(g, nb, i, seen) ==
    IF i > Len(nb)
    THEN <<>>
    ELSE LET n == nb[i]
             nbrs == SelectSeq(g.adj[n], LAMBDA m : m \notin seen)
         IN  [j \in 1..Len(nbrs) |-> <<n, nbrs[j]>>] \o edgesFrom(g, nb, i + 1, seen \cup {n})

edges(g, nb) == edgesFrom(g, nbunch_iter(g, nb), 1, {})

\* Graph.edges(): nbunch None
all_edges(g) == edges(g, g.order)

\* Graph.add_edges_from((u, v, dict) for ...): es is a sequence of <<u, v>>, the dicts are src's
RECURSIVE add_edges_from(_, _, _, _)
add_edges_from(g, src, es, i) ==
    IF i > Len(es)
    THEN g
    ELSE add_edges_from(add_edge(g, es[i][1], es[i][2], src.edge[{es[i][1], es[i][2]}]), src, es, i + 1)

\* Graph.add_nodes_from((n, dict) for ...): the atoms ns of src with their dicts
RECURSIVE add_nodes_from(_, _, _, _)
add_nodes_from(g, src, ns, i) ==
    IF i > Len(ns) THEN g ELSE add_nodes_from(add_node(g, ns[i], src.node[ns[i]]), src, ns, i + 1)

\* every (u, v) with v a neighbour of u, u in the order of ns: "for u, nbrs in adj.items() for v in nbrs"
RECURSIVE adjacencyPairs(_, _, _)
adjacencyPairs(g, ns, i) ==
    IF i > Len(ns)
    THEN <<>>
    ELSE [j \in 1..Len(g.adj[ns[i]]) |-> <<ns[i], g.adj[ns[i]][j]>>] \o adjacencyPairs(g, ns, i + 1)

\* Graph.copy() of the atoms ns (all of them, or those of a subgraph view): a new Graph object with
\* new dicts
graph_copy(g, ns, oid) ==
    LET keep == Range(ns)
        sub == [g EXCEPT !.adj = [n \in DOMAIN g.adj |-> SelectSeq(g.adj[n], LAMBDA m : m \in keep)]]
        g0 == add_nodes_from(EmptyGraph(g.kind, oid), g, ns, 1)
    IN  add_edges_from(g0, g, adjacencyPairs(sub, ns, 1), 1)

(***************************************************************************)
(* MoleculeContainer / CGRContainer (containers.py).  An operation that    *)
(* can raise returns [g |-> the content afterwards, err |-> the exception  *)
(* or ""].                                                                 *)
(***************************************************************************)
\* copy with a fault, to try C10 against: the new object holds the dicts of the old one
copy_shared(g, oid) == [g EXCEPT !.oid = oid]

\* MoleculeContainer.copy
copy(g, oid) == [graph_copy(g, g.order, oid) EXCEPT !.meta = update(@, g.meta)]

\* MoleculeContainer.subgraph(nbunch, meta); nbunch is a set of atom ids
subgraph(g, nbunch, meta, oid) ==
    LET sub == graph_copy(g, SelectSeq(g.order, LAMBDA n : n \in nbunch), oid)
    IN  IF meta THEN [sub EXCEPT !.meta = update(@, g.meta)] ELSE sub

\* max(self, default=0) + 1
nextMap(g) == IF Atoms(g) = {} THEN 1 ELSE (CHOOSE n \in Atoms(g) : \A m \in Atoms(g) : m <= n) + 1

\* MoleculeContainer.add_atom(element, s_charge, _map, mark, x, y, z); map is None or an int
Molecule_add_atom(g, element, s_charge, map, mark, x, y, z) ==
    IF map # NoneV /\ map.v \in Atoms(g)
    THEN [g |-> g, err |-> "mapping exists"]
    ELSE LET n == IF map = NoneV THEN nextMap(g) ELSE map.v
         IN  [g |-> add_node(g, n, [element |-> element, s_charge |-> s_charge, mark |-> mark,
                                    s_x |-> x, s_y |-> y, s_z |-> z, map |-> I(n)]),
              err |-> ""]

\* CGRContainer.add_atom(element, s_charge, p_charge, _map, mark, s_x, s_y, s_z, p_x, p_y, p_z)
CGR_add_atom(g, element, s_charge, p_charge, map, mark, s_x, s_y, s_z, p_x, p_y, p_z) ==
    IF map # NoneV /\ map.v \in Atoms(g)
    THEN [g |-> g, err |-> "mapping exists"]
    ELSE LET n == IF map = NoneV THEN nextMap(g) ELSE map.v
             dflt(pv, sv) == IF pv = NoneV THEN sv ELSE pv
         IN  [g |-> add_node(g, n, [element |-> element, s_charge |-> s_charge,
                                    p_charge |-> dflt(p_charge, s_charge), mark |-> mark,
                                    s_x |-> s_x, s_y |-> s_y, s_z |-> s_z, p_x |-> dflt(p_x, s_x),
                                    p_y |-> dflt(p_y, s_y), p_z |-> dflt(p_z, s_z), map |-> I(n)]),
              err |-> ""]

\* MoleculeContainer.add_bond(atom1, atom2, mark)
Molecule_add_bond(g, atom1, atom2, mark) ==
    IF atom1 \notin Atoms(g) \/ atom2 \notin Atoms(g)
    THEN [g |-> g, err |-> "atoms not found"]
    ELSE IF ~Truthy(mark)
         THEN [g |-> g, err |-> "no bond data"]
         ELSE [g |-> add_edge(g, atom1, atom2, [s_bond |-> mark]), err |-> ""]

\* CGRContainer.add_bond(atom1, atom2, s_mark, p_mark)
CGR_add_bond(g, atom1, atom2, s_mark, p_mark) ==
    LET attr == (IF Truthy(s_mark) THEN [s_bond |-> s_mark] ELSE EmptyDict)
                    @@ (IF Truthy(p_mark) THEN [p_bond |-> p_mark] ELSE EmptyDict)
    IN  IF atom1 \notin Atoms(g) \/ atom2 \notin Atoms(g)
        THEN [g |-> g, err |-> "atoms not found"]
        ELSE IF attr = EmptyDict
             THEN [g |-> g, err |-> "no bonds data"]
             ELSE [g |-> add_edge(g, atom1, atom2, attr), err |-> ""]

(***************************************************************************)
(* fix_data.  A bunch argument is [none |-> TRUE] (the default None) or    *)
(* a set of atom ids.                                                      *)
(***************************************************************************)
NoBunch == [none |-> TRUE, ids |-> {}]

Bunch(ids) == [none |-> FALSE, ids |-> ids]

\* the atoms whose dicts fix_data rebuilds
fixedAtoms(g, nodes_bunch) == IF nodes_bunch.none THEN Atoms(g) ELSE Atoms(g) \cap nodes_bunch.ids

\* the edges g.edges(nbunch=edges_bunch) yields
fixedBonds(g, edges_bunch) ==
    IF edges_bunch.none THEN Bonds(g) ELSE {b \in Bonds(g) : b \cap edges_bunch.ids # {}}

\* MoleculeContainer.fix_data(nodes_bunch, edges_bunch) on g itself: a.clear(); a.update(new)
fix_data(g, nodes_bunch, edges_bunch) ==
    [g EXCEPT !.node = [n \in DOMAIN g.node |->
                           IF n \in fixedAtoms(g, nodes_bunch)
                           THEN attr_renew(g.kind, g.node[n], node_marks(g.kind)) ELSE g.node[n]],
              !.edge = [b \in DOMAIN g.edge |->
                           IF b \in fixedBonds(g, edges_bunch)
                           THEN attr_renew(g.kind, g.edge[b], edge_marks(g.kind)) ELSE g.edge[b]]]

(***************************************************************************)
(* reset_query_marks                                                       *)
(***************************************************************************)
\* the if / elif chain on b_type and label[h]: the hybridization after one more bond
hybStep(hyb, b_type) ==
    IF b_type \in {I(1), NoneV} \/ hyb \in {3, 4} THEN hyb
    ELSE IF b_type = I(4) THEN 4
    ELSE IF b_type = I(3) \/ (b_type = I(2) /\ hyb = 2) THEN 3
    ELSE IF b_type = I(2) /\ hyb # 3 THEN 2
    ELSE hyb

\* the inner loop over g[i].items() in channel b, after the first k neighbours of atom i
RECURSIVE scanBonds(_, _, _, _)
scanBonds(g, i, b, k) ==
    IF k = 0
    THEN [hyb |-> 1, neighbors |-> 0]
    ELSE LET label == scanBonds(g, i, b, k - 1)
             node == g.adj[i][k]
             b_type == get(g.edge[{i, node}], b)
         IN  [neighbors |-> IF Truthy(b_type) /\ get(g.node[node], "element") # S("H")
                            THEN label.neighbors + 1 ELSE label.neighbors,
              hyb |-> hybStep(label.hyb, b_type)]

scanAll(g, i, b) == scanBonds(g, i, b, Len(g.adj[i]))

\* g.nodes[node]['element'] raises KeyError: a neighbour of i over a bond of channel b has no element
noElement(g, i, b) ==
    \E k \in 1..Len(g.adj[i]) :
        /\ Truthy(get(g.edge[{i, g.adj[i][k]}], b))
        /\ "element" \notin DOMAIN g.node[g.adj[i][k]]

\* the channels reset_query_marks reads
channels(kind) == IF kind = "CGR" THEN {"s_bond", "p_bond"} ELSE {"s_bond"}

\* the dict "label" reset_query_marks computes for atom i
queryLabel(g, i) ==
    LET s == scanAll(g, i, "s_bond")
        p == IF g.kind = "CGR" THEN scanAll(g, i, "p_bond") ELSE [hyb |-> 1, neighbors |-> 0]
        both(a, b) == IF a # b THEN T(I(a), I(b)) ELSE I(a)
        label == [s_hyb |-> I(s.hyb), p_hyb |-> I(p.hyb),
                  s_neighbors |-> I(s.neighbors), p_neighbors |-> I(p.neighbors)]
    IN  IF g.kind = "CGR"
        THEN label @@ [sp_hyb |-> both(s.hyb, p.hyb), sp_neighbors |-> both(s.neighbors, p.neighbors)]
        ELSE label

\* "for i in g": the atoms are updated one after the other, until one raises
RECURSIVE resetFrom(_, _)
resetFrom(g, k) ==
    IF k > Len(g.order)
    THEN [g |-> g, err |-> ""]
    ELSE LET i == g.order[k]
         IN  IF \E b \in channels(g.kind) : noElement(g, i, b)
             THEN [g |-> g, err |-> "KeyError"]
             ELSE resetFrom([g EXCEPT !.node[i] = update(@, queryLabel(g, i))], k + 1)

\* MoleculeContainer.reset_query_marks / CGRContainer.reset_query_marks on g itself
reset_query_marks(g) == resetFrom(g, 1)

(***************************************************************************)
(* pickle / unpickle.  The JSON-graph document is a record: nodes (a       *)
(* sequence of [atom, attr]), bonds (a sequence of [atom1, atom2, attr]),  *)
(* meta and s_only.                                                        *)
(***************************************************************************)
\* MoleculeContainer.pickle
pickle(g) ==
    LET s_only == g.kind # "CGR"
        nmarks == Range(IF s_only THEN Molecule_node_s ELSE CGR_node_sp)
        emarks == Range(IF s_only THEN Molecule_edge_s ELSE CGR_edge_sp)
        filtered == [g EXCEPT !.node = [n \in DOMAIN g.node |-> restrict(g.node[n], nmarks)],
                              !.edge = [b \in DOMAIN g.edge |-> restrict(g.edge[b], emarks)]]
        tmp == add_edges_from(add_nodes_from(EmptyGraph("Graph", g.oid), filtered, g.order, 1),
                              filtered, all_edges(g), 1)
        es == all_edges(tmp)
    IN  [nodes |-> [i \in 1..Len(tmp.order) |-> [atom |-> tmp.order[i], attr |-> tmp.node[tmp.order[i]]]],
         bonds |-> [i \in 1..Len(es) |->
                       [atom1 |-> es[i][1], atom2 |-> es[i][2], attr |-> tmp.edge[{es[i][1], es[i][2]}]]],
         meta |-> g.meta,
         s_only |-> s_only]

\* node_link_graph: graph.add_node(node, **nodedata) for each node, graph.add_edge(...) for each link
RECURSIVE linkGraph(_, _, _, _)
linkGraph(g, data, i, j) ==
    IF i <= Len(data.nodes)
    THEN linkGraph(add_node(g, data.nodes[i].atom, data.nodes[i].attr), data, i + 1, j)
    ELSE IF j <= Len(data.bonds)
         THEN linkGraph(add_edge(g, data.bonds[j].atom1, data.bonds[j].atom2, data.bonds[j].attr),
                        data, i, j + 1)
         ELSE g

\* MoleculeContainer.unpickle
unpickle(data, oid) ==
    LET g == linkGraph(EmptyGraph(IF data.s_only THEN "Molecule" ELSE "CGR", oid), data, 1, 1)
    IN  [fix_data(g, NoBunch, NoBunch) EXCEPT !.meta = update(@, data.meta)]

(***************************************************************************)
(* get_environment / get_center_atoms                                      *)
(***************************************************************************)
\* set(chain.from_iterable(self.edges(X)))
edgeEnds(g, X) == UNION {{e[1], e[2]} : e \in Range(edges(g, IterIds(X)))}

\* the list "nodes" after the loop "for i in range(deep)", from its turn i on
RECURSIVE envNodes(_, _, _, _)
envNodes(g, nodes, i, deep) ==
    IF i >= deep
    THEN nodes
    ELSE LET n == edgeEnds(g, nodes[i + 1])
         IN  IF n = {} \/ n \in Range(nodes) THEN nodes ELSE envNodes(g, Append(nodes, n), i + 1, deep)

\* MoleculeContainer.get_environment(atoms, dante, deep): the sequence of the subgraphs returned
\* (one subgraph unless dante)
get_environment(g, atoms, dante, deep, oid) ==
    LET nodes == envNodes(g, <<atoms>>, 0, deep)
    IN  IF dante
        THEN [i \in 1..Len(nodes) |-> subgraph(g, nodes[i], FALSE, oid + i - 1)]
        ELSE <<subgraph(g, nodes[Len(nodes)], FALSE, oid)>>

\* get_center_atoms with a fault, to try C9 against: a bond counts only when both of its orders
\* are stored and differ
get_center_atoms_both(g) ==
    LET byCharge == {n \in Atoms(g) : get(g.node[n], "s_charge") # get(g.node[n], "p_charge")}
        byBond == UNION {b \in Bonds(g) : /\ {"s_bond", "p_bond"} \subseteq DOMAIN g.edge[b]
                                          /\ g.edge[b].s_bond # g.edge[b].p_bond}
    IN  IterIds(byCharge \cup byBond)

\* CGRContainer.get_center_atoms: the list returned
get_center_atoms(g) ==
    LET byCharge == {n \in Atoms(g) : get(g.node[n], "s_charge") # get(g.node[n], "p_charge")}
        byBond == UNION {b \in Bonds(g) : get(g.edge[b], "s_bond") # get(g.edge[b], "p_bond")}
    IN  IterIds(byCharge \cup byBond)

(***************************************************************************)
(* CGRcore (core.py)                                                       *)
(***************************************************************************)
\* union with a fault, to try C3 against: the result has the class of the first input
union_as_first(m1, m2, oid) ==
    IF Atoms(m1) \cap Atoms(m2) # {}
    THEN [g |-> EmptyGraph("CGR", oid), err |-> "The node sets of m1 and m2 are not disjoint."]
    ELSE LET u1 == add_nodes_from(EmptyGraph(m1.kind, oid), m1, m1.order, 1)
             u2 == add_nodes_from(u1, m2, m2.order, 1)
             u3 == add_edges_from(u2, m1, all_edges(m1), 1)
         IN  [g |-> add_edges_from(u3, m2, all_edges(m2), 1), err |-> ""]

\* CGRcore.union
union(m1, m2, oid) ==
    IF Atoms(m1) \cap Atoms(m2) # {}
    THEN [g |-> EmptyGraph("CGR", oid), err |-> "The node sets of m1 and m2 are not disjoint."]
    ELSE LET u0 == EmptyGraph(IF m1.kind = "CGR" \/ m2.kind = "CGR" THEN "CGR" ELSE "Molecule", oid)
             u1 == add_nodes_from(u0, m1, m1.order, 1)
             u2 == add_nodes_from(u1, m2, m2.order, 1)
             u3 == add_edges_from(u2, m1, all_edges(m1), 1)
         IN  [g |-> add_edges_from(u3, m2, all_edges(m2), 1), err |-> ""]

\* CGRcore.__popdict
popdict(role) ==
    IF role = "reagents"
    THEN [edge |-> "s_bond", stereo |-> "s",
          node |-> {"s_charge", "s_neighbors", "s_hyb", "s_x", "s_y", "s_z"},
          ext_node |-> {"p_neighbors", "p_hyb", "sp_neighbors", "sp_hyb"}]
    ELSE [edge |-> "p_bond", stereo |-> "p",
          node |-> {"p_charge", "p_neighbors", "p_hyb", "p_x", "p_y", "p_z", "mark", "element", "map"},
          ext_node |-> {"s_neighbors", "s_hyb", "sp_neighbors", "sp_hyb"}]

\* the loop over g.edges(common, data=True): h.add_edge(n, m, **{pop: bond}) for a bond of the role
RECURSIVE commonEdges(_, _, _, _, _)
commonEdges(h, g, pop, es, i) ==
    IF i > Len(es)
    THEN h
    ELSE LET bond == get(g.edge[{es[i][1], es[i][2]}], pop)
         IN  commonEdges(IF Truthy(bond) THEN add_edge(h, es[i][1], es[i][2], pop :> bond) ELSE h,
                         g, pop, es, i + 1)

\* ext_common of one role
extCommon(g, common) == common \cup edgeEnds(g, common)

\* "n in g.stereo" raises AttributeError: the role reaches a stereo lookup on a graph without the
\* attribute (core.py:64 for a bond of the role at a common atom, core.py:73 for any bond of a
\* role-local atom)
stereoRaises(g, role, common) ==
    /\ g.stereo = "noattr"
    /\ \/ \E e \in Range(edges(g, IterIds(common))) :
              Truthy(get(g.edge[{e[1], e[2]}], popdict(role).edge))
       \/ edges(g, IterIds(Atoms(g) \ extCommon(g, common))) # <<>>

\* one turn of compose's loop "for i, g in (('reagents', m1), ('products', m2))" on the result h
composeRole(h, g, role, common) ==
    LET pdi == popdict(role)
        ext_common == extCommon(g, common)
        uniq == Atoms(g) \ ext_common
        h1 == commonEdges(h, g, pdi.edge, edges(g, IterIds(common)), 1)
        h2 == add_edges_from(h1, g, edges(g, IterIds(uniq)), 1)
        own == [g EXCEPT !.node = [n \in DOMAIN g.node |-> restrict(g.node[n], pdi.node)]]
        h3 == add_nodes_from(h2, own, IterIds(common), 1)
        ext == [g EXCEPT !.node = [n \in DOMAIN g.node |->
                                      restrict(g.node[n], DOMAIN g.node[n] \ pdi.ext_node)]]
        h4 == add_nodes_from(h3, ext, IterIds(ext_common \ common), 1)
    IN  add_nodes_from(h4, g, IterIds(uniq), 1)

\* CGRcore.compose
compose(m1, m2, oid) ==
    LET common == Atoms(m1) \cap Atoms(m2)
        extended_common == extCommon(m1, common) \cup extCommon(m2, common)
        h0 == EmptyGraph("CGR", oid)
    IN  IF stereoRaises(m1, "reagents", common) \/ stereoRaises(m2, "products", common)
        THEN [g |-> h0, err |-> "AttributeError"]
        ELSE [g |-> fix_data(composeRole(composeRole(h0, m1, "reagents", common), m2, "products", common),
                             Bunch(extended_common), Bunch(common)),
              err |-> ""]

(***************************************************************************)
(* The state: container objects in slots, and the dict stores.             *)
(***************************************************************************)
Slots == {"m1", "m2", "r"}

NoEnt == [kind |-> "none"]

\* the object part of a content: its structure and the references of its dicts
Obj(g) ==
    [kind |-> g.kind, oid |-> g.oid, order |-> g.order, nref |-> g.nref, adj |-> g.adj,
     eref |-> g.eref, mref |-> g.mref, stereo |-> g.stereo]

\* the content of an object: its dicts read from the stores
Deref(e) ==
    [kind |-> e.kind, oid |-> e.oid, order |-> e.order, nref |-> e.nref, adj |-> e.adj,
     eref |-> e.eref, mref |-> e.mref, stereo |-> e.stereo,
     node |-> [n \in DOMAIN e.nref |-> nodeAttr[e.nref[n]]],
     edge |-> [b \in DOMAIN e.eref |-> edgeAttr[e.eref[b]]],
     meta |-> metaAttr[e.mref]]

\* what a caller can observe of a content: no identities
View(g) ==
    [kind |-> g.kind, order |-> g.order, node |-> g.node, adj |-> g.adj, edge |-> g.edge,
     meta |-> g.meta]

Contents(s) == IF ent[s] = NoEnt THEN NoEnt ELSE View(Deref(ent[s]))

Snapshot == [s \in Slots |-> Contents(s)]

\* the references an object holds
Refs(e) ==
    IF e = NoEnt
    THEN {}
    ELSE {<<"node", e.nref[n]>> : n \in DOMAIN e.nref}
             \cup {<<"edge", e.eref[b]>> : b \in DOMAIN e.eref} \cup {<<"meta", e.mref>>}

\* the dicts of the contents put, by reference
nodeStore(put) ==
    LET new == UNION {{<<s, n>> : n \in Atoms(put[s])} : s \in DOMAIN put}
        at(r) == CHOOSE x \in new : put[x[1]].nref[x[2]] = r
    IN  [r \in {put[x[1]].nref[x[2]] : x \in new} |-> put[at(r)[1]].node[at(r)[2]]]

edgeStore(put) ==
    LET new == UNION {{<<s, b>> : b \in Bonds(put[s])} : s \in DOMAIN put}
        at(r) == CHOOSE x \in new : put[x[1]].eref[x[2]] = r
    IN  [r \in {put[x[1]].eref[x[2]] : x \in new} |-> put[at(r)[1]].edge[at(r)[2]]]

metaStore(put) ==
    [r \in {put[s].mref : s \in DOMAIN put} |-> put[CHOOSE s \in DOMAIN put : put[s].mref = r].meta]

\* A call named name returned: put maps the slots it wrote (a new object, or the object updated in
\* place) to their contents, used is the number of objects it created.
Return(name, target, args, err, out, put, used) ==
    /\ nops' = IF name \in {"add_atom", "add_bond"} THEN nops ELSE nops + 1
    /\ last' = [op |-> name, target |-> target, args |-> args, err |-> err, out |-> out]
    /\ pre' = Snapshot
    /\ ent' = [s \in Slots |-> IF s \in DOMAIN put THEN Obj(put[s]) ELSE ent[s]]
    /\ nodeAttr' = update(nodeAttr, nodeStore(put))
    /\ edgeAttr' = update(edgeAttr, edgeStore(put))
    /\ metaAttr' = update(metaAttr, metaStore(put))
    /\ nextOid' = nextOid + used
    /\ UNCHANGED hashOrder

NoPut == [s \in {} |-> NoEnt]

(***************************************************************************)
(* Bounds of the model and the arguments the calls are tried with.         *)
(***************************************************************************)
MaxAtoms == 3

\* the calls after the container is built (fix_data, reset_query_marks, pickle, ...)
MaxOps == 2

\* the bonds of a container drawn as an input
MaxBonds == 2

\* get_environment's deep: 0..MaxDeep, and 5
MaxDeep == 2

Deeps == 0..MaxDeep \cup {5}

AtomIds == 1..MaxAtoms

\* bond orders: 1 single, 2 double, 3 triple, 4 aromatic
BondOrders == {1, 2, 3, 4}

\* the marks MoleculeContainer.add_bond is called with (0: no bond data)
MoleculeMarks == {<<I(o), NoneV>> : o \in BondOrders} \cup {<<I(0), NoneV>>}

\* the (s_mark, p_mark) pairs CGRContainer.add_bond is called with
CGRMarks == {<<I(1), I(2)>>, <<I(1), NoneV>>, <<NoneV, I(2)>>, <<NoneV, NoneV>>}

Marks(kind) == IF kind = "CGR" THEN CGRMarks ELSE MoleculeMarks

(***************************************************************************)
(* The calls on the container in a slot.                                   *)
(***************************************************************************)
\* add_atom(element, s_charge[, p_charge], _map) with the other parameters at their defaults
AddAtom(s, element, s_charge, p_charge, map) ==
    /\ ent[s] # NoEnt
    /\ Cardinality(DOMAIN ent[s].nref) < MaxAtoms \/ (map # NoneV /\ map.v \in DOMAIN ent[s].nref)
    /\ ent[s].kind = "Molecule" => p_charge = NoneV
    /\ LET g == Deref(ent[s])
           r == IF g.kind = "CGR"
                THEN CGR_add_atom(g, S(element), s_charge, p_charge, map, S("0"), I(0), I(0), I(0),
                                  NoneV, NoneV, NoneV)
                ELSE Molecule_add_atom(g, S(element), s_charge, map, S("0"), I(0), I(0), I(0))
       IN  Return("add_atom", s,
                  [element |-> element, s_charge |-> s_charge, p_charge |-> p_charge, map |-> map],
                  r.err, NoneV, IF r.err = "" THEN s :> r.g ELSE NoPut, 0)

\* add_bond(atom1, atom2, mark) / add_bond(atom1, atom2, s_mark, p_mark)
AddBond(s, atom1, atom2, s_mark, p_mark) ==
    /\ ent[s] # NoEnt
    /\ LET g == Deref(ent[s])
           r == IF g.kind = "CGR"
                THEN CGR_add_bond(g, atom1, atom2, s_mark, p_mark)
                ELSE Molecule_add_bond(g, atom1, atom2, s_mark)
       IN  Return("add_bond", s,
                  [atom1 |-> atom1, atom2 |-> atom2, s_mark |-> s_mark, p_mark |-> p_mark],
                  r.err, NoneV, IF r.err = "" THEN s :> r.g ELSE NoPut, 0)

\* fix_data(copy, nodes_bunch, edges_bunch): on the container itself, or on a copy that is returned
FixData(s, cp, nodes_bunch, edges_bunch) ==
    /\ ent[s] # NoEnt
    /\ LET g == Deref(ent[s])
           r == fix_data(IF cp THEN copy(g, nextOid) ELSE g, nodes_bunch, edges_bunch)
       IN  Return("fix_data", s, [copy |-> cp, nodes_bunch |-> nodes_bunch, edges_bunch |-> edges_bunch],
                  "", NoneV, IF cp THEN "r" :> r ELSE s :> r, IF cp THEN 1 ELSE 0)

\* reset_query_marks(copy)
ResetQueryMarks(s, cp) ==
    /\ ent[s] # NoEnt
    /\ LET g == Deref(ent[s])
           r == reset_query_marks(IF cp THEN copy(g, nextOid) ELSE g)
       IN  Return("reset_query_marks", s, [copy |-> cp], r.err, NoneV,
                  IF cp THEN (IF r.err = "" THEN "r" :> r.g ELSE NoPut) ELSE s :> r.g,
                  IF cp THEN 1 ELSE 0)

\* pickle(): the document is the value returned
Pickle(s) ==
    /\ ent[s] # NoEnt
    /\ Return("pickle", s, NoneV, "", pickle(Deref(ent[s])), NoPut, 0)

\* MoleculeContainer.unpickle(data) of the document the last call returned; the container goes to r
Unpickle ==
    /\ last.op = "pickle"
    /\ Return("unpickle", last.target, NoneV, "", NoneV, "r" :> unpickle(last.out, nextOid), 1)

(***************************************************************************)
(* Spec: the life of one container, built by add_atom and add_bond calls   *)
(* (failing calls included) and then normalised, marked and serialised.    *)
(***************************************************************************)
\* the state in which the slots of put hold these contents (objects 1..Cardinality(DOMAIN put))
Start(put) ==
    /\ ent = [s \in Slots |-> IF s \in DOMAIN put THEN Obj(put[s]) ELSE NoEnt]
    /\ nodeAttr = nodeStore(put)
    /\ edgeAttr = edgeStore(put)
    /\ metaAttr = metaStore(put)
    /\ nextOid = Cardinality(DOMAIN put) + 1
    /\ last = [op |-> "init", target |-> "m1", args |-> NoneV, err |-> "", out |-> NoneV]
    /\ pre = [s \in Slots |-> NoEnt]
    /\ nops = 0

Init ==
    /\ \E kind \in {"Molecule", "CGR"} : Start("m1" :> EmptyGraph(kind, 1))
    /\ hashOrder = "asc"      \* no call of this specification iterates a set

Building == nops = 0

Next ==
    \/ \E m \in {NoneV, I(1)} : Building /\ AddAtom("m1", "C", I(0), NoneV, m)
    \/ \E a, b \in AtomIds, mk \in Marks(ent["m1"].kind) :
           Building /\ a < b /\ AddBond("m1", a, b, mk[1], mk[2])
    \/ \E cp \in BOOLEAN, nb \in {NoBunch, Bunch({1})} : nops < MaxOps /\ FixData("m1", cp, nb, nb)
    \/ \E cp \in BOOLEAN : nops < MaxOps /\ ResetQueryMarks("m1", cp)
    \/ nops < MaxOps /\ Pickle("m1")
    \/ nops < MaxOps /\ Unpickle

Spec == Init /\ [][Next]_vars

(***************************************************************************)
(* Containers drawn as inputs: each is built by the code, add_atom for the *)
(* atoms 1..n and then add_bond for the bonds, in ascending order.         *)
(***************************************************************************)
\* the pairs a < b of atoms 1..n
Pairs(n) == {x \in (1..n) \X (1..n) : x[1] < x[2]}

\* the bonds of an input: at most MaxBonds pairs
BondSets(n) == {B \in SUBSET Pairs(n) : Cardinality(B) <= MaxBonds}

\* the pairs of B in ascending order
pairSeq(B) == SortSeq(SeqOfSet(B), LAMBDA x, y : x[1] < y[1] \/ (x[1] = y[1] /\ x[2] < y[2]))

\* add_atom(element, s_charge[, p_charge], _map) for the atoms ids[i..], p_charge from pc
RECURSIVE addAtoms(_, _, _, _)
addAtoms(g, ids, pc, i) ==
    IF i > Len(ids)
    THEN g
    ELSE LET r == IF g.kind = "CGR"
                  THEN CGR_add_atom(g, S("C"), I(0), pc[ids[i]], I(ids[i]), S("0"), I(0), I(0), I(0),
                                    NoneV, NoneV, NoneV)
                  ELSE Molecule_add_atom(g, S("C"), I(0), I(ids[i]), S("0"), I(0), I(0), I(0))
         IN  addAtoms(r.g, ids, pc, i + 1)

\* add_bond for the pairs bs[i..], marks from mk
RECURSIVE addBonds(_, _, _, _)
addBonds(g, bs, mk, i) ==
    IF i > Len(bs)
    THEN g
    ELSE LET r == IF g.kind = "CGR"
                  THEN CGR_add_bond(g, bs[i][1], bs[i][2], mk[bs[i]][1], mk[bs[i]][2])
                  ELSE Molecule_add_bond(g, bs[i][1], bs[i][2], mk[bs[i]][1])
         IN  addBonds(r.g, bs, mk, i + 1)

\* the container of this kind with the atoms A (p_charge pc), the bonds B (marks mk)
Built(kind, oid, A, pc, B, mk) ==
    addBonds(addAtoms(EmptyGraph(kind, oid), IterAsc(A), pc, 1), pairSeq(B), mk, 1)

\* the marks of the bonds of an input
InputMarks(kind) ==
    IF kind = "CGR"
    THEN {<<I(1), I(1)>>, <<I(1), I(2)>>, <<I(1), NoneV>>, <<NoneV, I(2)>>}
    ELSE {<<I(1), NoneV>>, <<I(2), NoneV>>}

\* the p_charge of the atoms of an input
InputCharges(kind) == IF kind = "CGR" THEN {NoneV, I(1)} ELSE {NoneV}

(***************************************************************************)
(* SpecEnv: get_environment on a container drawn as input.                 *)
(***************************************************************************)
\* get_environment(atoms, dante, deep): the subgraphs returned are the value of the call
GetEnvironment(s, atoms, dante, deep) ==
    /\ ent[s] # NoEnt
    /\ LET centers == get_environment(Deref(ent[s]), atoms, dante, deep, nextOid)
       IN  Return("get_environment", s, [atoms |-> atoms, dante |-> dante, deep |-> deep], "",
                  [i \in 1..Len(centers) |-> View(centers[i])], NoPut, Len(centers))

InitEnv ==
    /\ \E kind \in {"Molecule", "CGR"}, n \in 1..MaxAtoms :
           \E B \in BondSets(n) :
               Start("m1" :> Built(kind, 1, 1..n, [a \in 1..n |-> NoneV], B, [b \in B |-> <<I(1), I(1)>>]))
    /\ hashOrder \in {"asc", "desc"}

NextEnv ==
    \E atoms \in SUBSET AtomIds, dante \in BOOLEAN, deep \in Deeps :
        nops = 0 /\ atoms # {} /\ GetEnvironment("m1", atoms, dante, deep)

SpecEnv == InitEnv /\ [][NextEnv]_vars

(***************************************************************************)
(* SpecCenter: get_center_atoms on a CGR drawn as input.                   *)
(***************************************************************************)
\* get_center_atoms(): the list returned is the value of the call
GetCenterAtoms(s) ==
    /\ ent[s] # NoEnt
    /\ ent[s].kind = "CGR"
    /\ Return("get_center_atoms", s, NoneV, "", get_center_atoms(Deref(ent[s])), NoPut, 0)

InitCenter ==
    /\ \E n \in 1..MaxAtoms :
           \E B \in BondSets(n), pc \in [1..n -> InputCharges("CGR")] :
               \E mk \in [B -> InputMarks("CGR")] : Start("m1" :> Built("CGR", 1, 1..n, pc, B, mk))
    /\ hashOrder \in {"asc", "desc"}

NextCenter == nops = 0 /\ GetCenterAtoms("m1")

SpecCenter == InitCenter /\ [][NextCenter]_vars

(***************************************************************************)
(* SpecMerge: union and compose on two containers drawn as inputs.  The    *)
(* first has the atoms 1..a, the second the atoms b..c, MaxAtoms + 1 atoms *)
(* together at most.                                                       *)
(***************************************************************************)
\* the marks of the bonds of the two inputs
MergeMarks(kind) == IF kind = "CGR" THEN {<<I(1), NoneV>>, <<NoneV, I(2)>>} ELSE {<<I(1), NoneV>>}

\* the bonds among the atoms A: at most MaxBonds pairs of A
BondsAmong(A) == {B \in SUBSET {x \in A \X A : x[1] < x[2]} : Cardinality(B) <= MaxBonds}

\* the atom sets of the two inputs, total atoms together at most
AtomSetPairs(total) ==
    {x \in {1..a : a \in AtomIds} \X {b..c : b, c \in AtomIds} :
        x[2] # {} /\ Cardinality(x[1]) + Cardinality(x[2]) <= total}

\* the two inputs as the contents of m1 and m2, objects 1 and 2
InputPair(k1, A1, B1, mk1, k2, A2, B2, mk2) ==
    ("m1" :> Built(k1, 1, A1, [a \in A1 |-> NoneV], B1, mk1))
        @@ ("m2" :> Built(k2, 2, A2, [a \in A2 |-> NoneV], B2, mk2))

\* the caller has set the attribute stereo of the objects of put
withStereo(put, st) == [s \in DOMAIN put |-> [put[s] EXCEPT !.stereo = st]]

\* CGRcore.union(a, b): the container returned goes to r
Union(a, b) ==
    /\ ent[a] # NoEnt /\ ent[b] # NoEnt
    /\ LET r == union(Deref(ent[a]), Deref(ent[b]), nextOid)
       IN  Return("union", a, [m1 |-> a, m2 |-> b], r.err, NoneV,
                  IF r.err = "" THEN "r" :> r.g ELSE NoPut, IF r.err = "" THEN 1 ELSE 0)

\* CGRcore.compose(a, b): the container returned goes to r
Compose(a, b) ==
    /\ ent[a] # NoEnt /\ ent[b] # NoEnt
    /\ LET r == compose(Deref(ent[a]), Deref(ent[b]), nextOid)
       IN  Return("compose", a, [m1 |-> a, m2 |-> b], r.err, NoneV,
                  IF r.err = "" THEN "r" :> r.g ELSE NoPut, 1)

InitMerge ==
    /\ \E x \in AtomSetPairs(MaxAtoms + 1), k1, k2 \in {"Molecule", "CGR"}, st \in {"noattr", "empty"} :
           \E B1 \in BondsAmong(x[1]), B2 \in BondsAmong(x[2]) :
               \E mk1 \in [B1 -> MergeMarks(k1)], mk2 \in [B2 -> MergeMarks(k2)] :
                   Start(withStereo(InputPair(k1, x[1], B1, mk1, k2, x[2], B2, mk2), st))
    /\ hashOrder \in {"asc", "desc"}

NextMerge ==
    \/ nops = 0 /\ Union("m1", "m2")
    \/ nops = 0 /\ Compose("m1", "m2")

SpecMerge == InitMerge /\ [][NextMerge]_vars

(***************************************************************************)
(* SpecIndep: a container is derived from the inputs by copy, subgraph,    *)
(* union or compose, and then one of the containers is changed.            *)
(***************************************************************************)
\* copy(): the container returned goes to r
Copy(s) ==
    /\ ent[s] # NoEnt
    /\ Return("copy", s, [m1 |-> s, m2 |-> s], "", NoneV, "r" :> copy(Deref(ent[s]), nextOid), 1)

\* subgraph(nbunch, meta): the container returned goes to r
Subgraph(s, nbunch, meta) ==
    /\ ent[s] # NoEnt
    /\ Return("subgraph", s, [m1 |-> s, m2 |-> s, nbunch |-> nbunch, meta |-> meta], "", NoneV,
              "r" :> subgraph(Deref(ent[s]), nbunch, meta, nextOid), 1)

\* atom(n)[k] = v: the caller updates the attribute mapping atom(n) returns
AtomUpdate(s, n, k, v) ==
    /\ ent[s] # NoEnt
    /\ n \in DOMAIN ent[s].nref
    /\ Return("atom_update", s, [atom |-> n, key |-> k, value |-> v], "", NoneV,
              s :> [Deref(ent[s]) EXCEPT !.node[n] = update(@, k :> v)], 0)

\* bond(atom1, atom2)[k] = v: the caller updates the attribute mapping bond(atom1, atom2) returns
BondUpdate(s, atom1, atom2, k, v) ==
    /\ ent[s] # NoEnt
    /\ {atom1, atom2} \in DOMAIN ent[s].eref
    /\ Return("bond_update", s, [atom1 |-> atom1, atom2 |-> atom2, key |-> k, value |-> v], "", NoneV,
              s :> [Deref(ent[s]) EXCEPT !.edge[{atom1, atom2}] = update(@, k :> v)], 0)

\* meta[k] = v: the caller updates the mapping the property meta returns
MetaUpdate(s, k, v) ==
    /\ ent[s] # NoEnt
    /\ Return("meta_update", s, [key |-> k, value |-> v], "", NoneV,
              s :> [Deref(ent[s]) EXCEPT !.meta = update(@, k :> v)], 0)

\* the caller has set meta["name"] of the objects of put to the names of their slots
withMeta(put) == [s \in DOMAIN put |-> [put[s] EXCEPT !.meta = [name |-> S(s)]]]

\* the calls that derive a container, and the calls that change one
Derivations == {"copy", "subgraph", "union", "compose"}

Mutations ==
    {"add_atom", "add_bond", "atom_update", "bond_update", "meta_update", "fix_data", "reset_query_marks"}

InitIndep ==
    /\ \E x \in AtomSetPairs(MaxAtoms), k1, k2 \in {"Molecule", "CGR"} :
           \E B1 \in BondsAmong(x[1]), B2 \in BondsAmong(x[2]) :
               Start(withMeta(withStereo(
                   InputPair(k1, x[1], B1, [b \in B1 |-> <<I(1), NoneV>>],
                             k2, x[2], B2, [b \in B2 |-> <<I(1), NoneV>>]), "empty")))
    /\ hashOrder \in {"asc", "desc"}

Derived == last.op \in Derivations /\ last.err = ""

NextIndep ==
    \/ \E s \in {"m1", "m2"} : nops = 0 /\ Copy(s)
    \/ \E s \in {"m1", "m2"}, k \in AtomIds, meta \in BOOLEAN :
           nops = 0 /\ k < MaxAtoms /\ Subgraph(s, 1..k, meta)
    \/ nops = 0 /\ Union("m1", "m2")
    \/ nops = 0 /\ Compose("m1", "m2")
    \/ \E s \in Slots : Derived /\ AddAtom(s, "C", I(0), NoneV, NoneV)
    \/ \E s \in Slots, a, b \in AtomIds : Derived /\ a < b /\ AddBond(s, a, b, I(2), NoneV)
    \/ \E s \in Slots, n \in AtomIds : Derived /\ AtomUpdate(s, n, "mark", S("1"))
    \/ \E s \in Slots, a, b \in AtomIds : Derived /\ a < b /\ BondUpdate(s, a, b, "s_bond", I(3))
    \/ \E s \in Slots : Derived /\ MetaUpdate(s, "name", S("new"))
    \/ \E s \in Slots : Derived /\ FixData(s, FALSE, NoBunch, NoBunch)
    \/ \E s \in Slots : Derived /\ ResetQueryMarks(s, FALSE)

SpecIndep == InitIndep /\ [][NextIndep]_vars

(***************************************************************************)
(* SpecCGR: the life of one CGR from the empty container, add_atom and     *)
(* add_bond calls (failing calls included) in any order with at most       *)
(* MaxOps fix_data and reset_query_marks calls.                            *)
(***************************************************************************)
\* the atoms of the CGR of SpecCGR
MaxCGRAtoms == 2

InitCGR ==
    /\ Start("m1" :> EmptyGraph("CGR", 1))
    /\ hashOrder = "asc"      \* no call of this specification iterates a set

NextCGR ==
    \/ \E m \in {NoneV, I(1)} :
           /\ Cardinality(DOMAIN ent["m1"].nref) < MaxCGRAtoms \/ m # NoneV
           /\ AddAtom("m1", "C", I(0), NoneV, m)
    \/ \E a, b \in AtomIds, mk \in CGRMarks : a < b /\ AddBond("m1", a, b, mk[1], mk[2])
    \/ nops < MaxOps /\ FixData("m1", FALSE, NoBunch, NoBunch)
    \/ nops < MaxOps /\ ResetQueryMarks("m1", FALSE)

SpecCGR == InitCGR /\ [][NextCGR]_vars

(***************************************************************************)
(* SpecCompose: compose on two containers drawn as inputs, with up to      *)
(* MaxComposeBonds bonds each.                                             *)
(***************************************************************************)
MaxComposeBonds == 3

\* the bonds among the atoms A: at most MaxComposeBonds pairs of A
ComposeBonds(A) == {B \in SUBSET {x \in A \X A : x[1] < x[2]} : Cardinality(B) <= MaxComposeBonds}

InitCompose ==
    /\ \E x \in AtomSetPairs(MaxAtoms + 1), k1, k2 \in {"Molecule", "CGR"}, st \in {"noattr", "empty"} :
           \E B1 \in ComposeBonds(x[1]), B2 \in ComposeBonds(x[2]) :
               \E mk1 \in [B1 -> MergeMarks(k1)], mk2 \in [B2 -> MergeMarks(k2)] :
                   Start(withStereo(InputPair(k1, x[1], B1, mk1, k2, x[2], B2, mk2), st))
    /\ hashOrder \in {"asc", "desc"}

NextCompose == nops = 0 /\ Compose("m1", "m2")

SpecCompose == InitCompose /\ [][NextCompose]_vars

(***************************************************************************)
(* The properties checked.                                                 *)
(***************************************************************************)
\* the container a call has just worked on, before and after
Before == pre[last.target]

After == Contents(last.target)

\* the call was made on the container itself and returned normally
InPlace(op) == last.op = op /\ last.err = "" /\ ~last.args.copy

\* the two containers a merge was called with, and the container it returned
Reagents == pre[last.args.m1]

Products == pre[last.args.m2]

Result == Contents("r")

\* the bond e of g stores the order v in channel k
hasBond(g, e, k, v) == e \in Bonds(g) /\ get(g.edge[e], k) = v

\* C1: when compose, called with a reagents graph that has the bond (1,2) with s_bond 1 where
\* the products graph has none, and a products graph that has the bond (2,3) with p_bond 2 where
\* the reagents graph has none, returns, it returns a CGR whose edge (1,2) carries s_bond 1 and no
\* p_bond and whose edge (2,3) carries p_bond 2 and no s_bond; a pair bonded in both graphs gives
\* one edge that carries the s_bond of the reagents and the p_bond of the products
C1_ComposeBondUnion ==
    (last.op = "compose" /\ last.err = "") =>
        /\ (/\ hasBond(Reagents, {1, 2}, "s_bond", I(1)) /\ {1, 2} \notin Bonds(Products)
            /\ hasBond(Products, {2, 3}, "p_bond", I(2)) /\ {2, 3} \notin Bonds(Reagents))
               => /\ Result.kind = "CGR"
                  /\ hasBond(Result, {1, 2}, "s_bond", I(1)) /\ "p_bond" \notin DOMAIN Result.edge[{1, 2}]
                  /\ hasBond(Result, {2, 3}, "p_bond", I(2)) /\ "s_bond" \notin DOMAIN Result.edge[{2, 3}]
        /\ \A e \in Bonds(Reagents) \cap Bonds(Products) :
               ("s_bond" \in DOMAIN Reagents.edge[e] /\ "p_bond" \in DOMAIN Products.edge[e])
                   => /\ hasBond(Result, e, "s_bond", Reagents.edge[e].s_bond)
                      /\ hasBond(Result, e, "p_bond", Products.edge[e].p_bond)

\* extended_common: the common atoms and every atom bonded to one in either graph
extendedCommon(m1, m2) ==
    LET common == Atoms(m1) \cap Atoms(m2)
    IN  common \cup {n \in Atoms(m1) \cup Atoms(m2) :
                        \E c \in common : {c, n} \in Bonds(m1) \/ {c, n} \in Bonds(m2)}

\* the keys of the CGR node schema: the s_, p_ and sp_ marks, the base keys, the coordinates
cgrNodeKeys == Range(CGR_node_sp) \cup {CGR_node_marks[i][3] : i \in DOMAIN CGR_node_marks}

\* C2: in the container compose returns, every atom of extended_common has keys of the CGR schema
\* only, and carries the s_charge and the p_charge its inputs stored for it (the reagents' for an
\* atom of the reagents, the products' for an atom of the products)
C2_ComposeMarksTotal ==
    (last.op = "compose" /\ last.err = "") =>
        \A n \in extendedCommon(Reagents, Products) :
            LET s == IF n \in Atoms(Reagents) THEN Reagents.node[n] ELSE Products.node[n]
                p == IF n \in Atoms(Products) THEN Products.node[n] ELSE Reagents.node[n]
            IN  /\ n \in Atoms(Result)
                /\ DOMAIN Result.node[n] \subseteq cgrNodeKeys
                /\ ("s_charge" \in DOMAIN s /\ "p_charge" \in DOMAIN p)
                       => /\ get(Result.node[n], "s_charge") = s.s_charge
                          /\ get(Result.node[n], "p_charge") = p.p_charge

\* C3: union raises and returns nothing when its inputs share an atom id; otherwise it returns a
\* container with the atoms and bonds of both inputs and no others, each with the attribute
\* mapping it has in its input, a CGR if an input is a CGR and a Molecule if not
C3_Union ==
    last.op = "union" =>
        IF Atoms(Reagents) \cap Atoms(Products) # {}
        THEN last.err # "" /\ ent["r"] = NoEnt
        ELSE /\ last.err = ""
             /\ Cardinality(Atoms(Result)) = Cardinality(Atoms(Reagents)) + Cardinality(Atoms(Products))
             /\ Cardinality(Bonds(Result)) = Cardinality(Bonds(Reagents)) + Cardinality(Bonds(Products))
             /\ \A g \in {Reagents, Products} :
                    /\ \A n \in Atoms(g) : n \in Atoms(Result) /\ Result.node[n] = g.node[n]
                    /\ \A e \in Bonds(g) : e \in Bonds(Result) /\ Result.edge[e] = g.edge[e]
             /\ Result.kind = IF "CGR" \in {Reagents.kind, Products.kind} THEN "CGR" ELSE "Molecule"

\* C3 witness: union has joined a Molecule and a CGR, one of them with a bond
C3_Witness ==
    /\ last.op = "union" /\ last.err = ""
    /\ Reagents.kind # Products.kind
    /\ Bonds(Result) # {}
    /\ Atoms(Reagents) # {} /\ Atoms(Products) # {}

\* the bond orders of channel b on the bonds of atom i, in the order of the permutation f of g[i]
bondTypes(g, i, b, f) == [k \in 1..Len(g.adj[i]) |-> get(g.edge[{i, g.adj[i][f[k]]}], b)]

\* the hybridization label reached by visiting the bonds in the order of q
RECURSIVE hybOf(_)
hybOf(q) == IF q = <<>> THEN 1 ELSE hybStep(hybOf(SubSeq(q, 1, Len(q) - 1)), q[Len(q)])

\* the listed cases: the bonds of q are of order o or single or undefined, n of them of order o
only(q, o, n) ==
    /\ \A k \in DOMAIN q : q[k] \in {I(o), I(1), NoneV}
    /\ Cardinality({k \in DOMAIN q : q[k] = I(o)}) \in n

hybCases(q, h) ==
    /\ only(q, 2, {1}) => h = I(2)
    /\ only(q, 3, {1}) => h = I(3)
    /\ only(q, 4, 1..Len(q)) => h = I(4)
    /\ only(q, 1, 0..Len(q)) => h = I(1)

hybKey(b) == IF b = "s_bond" THEN "s_hyb" ELSE "p_hyb"

\* C4: after reset_query_marks every atom's s_hyb (p_hyb for the p channel of a CGR) is the value
\* reached by visiting its bonds in any order, and is 4 with an aromatic bond, 3 with a triple
\* bond, 2 with exactly one double bond, 1 with single or undefined bonds only
C4_HybOrderFree ==
    InPlace("reset_query_marks") =>
        \A i \in Atoms(After), b \in channels(After.kind) :
            \A f \in Permutations(1..Len(After.adj[i])) :
                /\ After.node[i][hybKey(b)] = I(hybOf(bondTypes(After, i, b, f)))
                /\ hybCases(bondTypes(After, i, b, f), After.node[i][hybKey(b)])

\* C5: fix_data applied to a container that fix_data has just normalised changes no atom or
\* bond attribute mapping
C5_FixDataIdempotent ==
    (InPlace("fix_data") /\ last.args.nodes_bunch = NoBunch) =>
        LET twice == View(fix_data(After, NoBunch, NoBunch))
        IN  twice.node = After.node /\ twice.edge = After.edge

\* the keys of the schema of a kind: marks, base keys, coordinates
nodeSchema(kind) == Range(IF kind = "CGR" THEN CGR_node_sp ELSE Molecule_node_s)

edgeSchema(kind) == Range(IF kind = "CGR" THEN CGR_edge_sp ELSE Molecule_edge_s)

\* an attribute mapping cut down to the keys K that have a stored value
stored(attr, K) == [k \in {j \in DOMAIN attr \cap K : attr[j] # NoneV} |-> attr[k]]

\* C6: unpickle(pickle(x)) has the kind, atoms, bonds and meta of x and, for every atom and bond,
\* the schema-visible attributes of x (all the attributes of x when x carries no others)
C6_PickleRoundTrip ==
    last.op = "unpickle" =>
        LET x == Before
            y == Contents("r")
        IN  /\ y.kind = x.kind
            /\ Atoms(y) = Atoms(x)
            /\ Bonds(y) = Bonds(x)
            /\ y.meta = x.meta
            /\ \A n \in Atoms(x) : y.node[n] = restrict(x.node[n], nodeSchema(x.kind))
            /\ \A e \in Bonds(x) : y.edge[e] = restrict(x.edge[e], edgeSchema(x.kind))

\* C7: after fix_data every selected atom and bond has the mapping it had before the call, cut
\* down to the schema keys of the container's kind that have a stored value
C7_FixDataPureFilter ==
    InPlace("fix_data") =>
        /\ \A n \in fixedAtoms(Before, last.args.nodes_bunch) :
               After.node[n] = stored(Before.node[n], nodeSchema(Before.kind))
        /\ \A e \in fixedBonds(Before, last.args.edges_bunch) :
               After.edge[e] = stored(Before.edge[e], edgeSchema(Before.kind))

\* the atoms within d bonds of the atoms X
RECURSIVE reach(_, _, _)
reach(g, X, d) ==
    IF d = 0
    THEN X
    ELSE LET Y == reach(g, X, d - 1)
         IN  Y \cup {n \in Atoms(g) : \E m \in Y : {m, n} \in Bonds(g)}

\* h is the subgraph of g induced on the atoms X
induced(h, g, X) ==
    /\ Atoms(h) = X
    /\ Bonds(h) = {b \in Bonds(g) : b \subseteq X}
    /\ \A n \in Atoms(h) : h.node[n] = g.node[n]
    /\ \A b \in Bonds(h) : h.edge[b] = g.edge[b]

\* C8: get_environment(atoms, deep=d), atoms being atoms of the container, returns the subgraph
\* induced on the atoms within d bonds of the core atoms; with dante the subgraphs for 0, 1, ... bonds, up to d or to the first number of
\* bonds that adds no atom; it never raises
C8_Environment ==
    (last.op = "get_environment" /\ last.args.atoms \subseteq Atoms(Before)) =>
        LET g == Before
            core == last.args.atoms
            d == last.args.deep
            out == last.out
            stalls(k) == reach(g, core, k + 1) = reach(g, core, k)
        IN  /\ last.err = ""
            /\ IF last.args.dante
               THEN /\ Len(out) >= 1
                    /\ \A k \in 1..Len(out) : induced(out[k], g, reach(g, core, k - 1))
                    /\ \A k \in 1..(Len(out) - 1) : ~stalls(k - 1)
                    /\ Len(out) - 1 = d \/ (Len(out) - 1 < d /\ stalls(Len(out) - 1))
               ELSE Len(out) = 1 /\ induced(out[1], g, reach(g, core, d))

\* the s and p values of key k differ in the mapping attr
differs(attr, k) == get(attr, "s_" \o k) # get(attr, "p_" \o k)

\* C9: get_center_atoms returns, each once, exactly the atoms whose s_charge differs from
\* p_charge and the two ends of every bond whose s_bond differs from p_bond (a bond stored on one
\* side only differs); an atom with s_charge 0 and p_charge 1 is returned, an atom with equal
\* charges and no differing bond is not
C9_CenterAtoms ==
    last.op = "get_center_atoms" =>
        LET g == Before
            out == last.out
            changed == {n \in Atoms(g) : differs(g.node[n], "charge")}
            ends == {n \in Atoms(g) : \E b \in Bonds(g) : n \in b /\ differs(g.edge[b], "bond")}
        IN  /\ last.err = ""
            /\ Range(out) = changed \cup ends
            /\ Len(out) = Cardinality(Range(out))
            /\ \A n \in Atoms(g) :
                   /\ (g.node[n].s_charge = I(0) /\ g.node[n].p_charge = I(1)) => n \in Range(out)
                   /\ (/\ g.node[n].s_charge = g.node[n].p_charge
                       /\ \A b \in Bonds(g) : n \in b => get(g.edge[b], "s_bond") = get(g.edge[b], "p_bond"))
                          => n \notin Range(out)

\* C9 witness: a call returned an atom for its charges, an atom for a bond stored on one side
\* only, and left an atom of the container out
C9_Witness ==
    /\ last.op = "get_center_atoms"
    /\ \E a, b, c \in Atoms(Before) :
           /\ a \in Range(last.out) /\ differs(Before.node[a], "charge")
           /\ b \in Range(last.out) /\ ~differs(Before.node[b], "charge")
           /\ \E e \in Bonds(Before) : b \in e /\ "p_bond" \notin DOMAIN Before.edge[e]
           /\ c \notin Range(last.out)

\* C10: copy, subgraph, union and compose leave the containers they are called with as they
\* were; no two containers hold the same attribute mapping or meta mapping; and an add_atom,
\* add_bond, attribute update, fix_data or reset_query_marks on one container leaves every other
\* container as it was
C10_Independence ==
    /\ \A s, t \in Slots : s # t => Refs(ent[s]) \cap Refs(ent[t]) = {}
    /\ last.op \in Derivations => \A s \in {"m1", "m2"} : Contents(s) = pre[s]
    /\ last.op \in Mutations => \A s \in Slots \ {last.target} : Contents(s) = pre[s]

\* C10 witness: after compose returned a container, an input was changed and the container
\* compose returned was not
C10_Witness ==
    /\ last.op \in Mutations /\ last.target = "m1"
    /\ Contents("m1") # pre["m1"]
    /\ pre["r"] # NoEnt /\ pre["r"].kind = "CGR" /\ pre["m1"].kind = "Molecule" /\ pre["m2"].kind = "Molecule"
    /\ Atoms(pre["r"]) \cap Atoms(pre["m1"]) # {}
    /\ Contents("r") = pre["r"]

\* C11: in every state of a CGR built from the empty container by add_atom, add_bond,
\* reset_query_marks and fix_data calls, every bond joins two atoms of the container and carries
\* an order in s_bond or in p_bond; an add_bond call with an atom that is not in the container, or
\* with no order in either channel, raises and leaves the container as it was
C11_CGRBondInvariant ==
    LET g == Contents("m1")
    IN  /\ \A e \in Bonds(g) :
               /\ e \subseteq Atoms(g)
               /\ Truthy(get(g.edge[e], "s_bond")) \/ Truthy(get(g.edge[e], "p_bond"))
        /\ (/\ last.op = "add_bond"
            /\ \/ {last.args.atom1, last.args.atom2} \ Atoms(Before) # {}
               \/ ~Truthy(last.args.s_mark) /\ ~Truthy(last.args.p_mark))
               => last.err # "" /\ After = Before

\* C12: in the container compose returns, every bond of the reagents that stores s_bond and
\* every bond of the products that stores p_bond is a bond between the same two atoms, a bond
\* between two atoms outside common that are each bonded to a common atom included; and every
\* bond of the result is a bond of an input
C12_ComposeKeepsBonds ==
    (last.op = "compose" /\ last.err = "") =>
        /\ \A e \in Bonds(Reagents) : "s_bond" \in DOMAIN Reagents.edge[e] => e \in Bonds(Result)
        /\ \A e \in Bonds(Products) : "p_bond" \in DOMAIN Products.edge[e] => e \in Bonds(Result)
        /\ Bonds(Result) \subseteq Bonds(Reagents) \cup Bonds(Products)

====
